---- MODULE Spec2Model ----
(***************************************************************************)
(* Dynamic monitoring component of the server-monitor example:             *)
(*   DynamicMonitor  (timer driven collection, bounded history, config)    *)
(*   AlertManager    (rule based alerts, raised / resolved)                *)
(*   system-info     (getCpuInfo, getMemInfo, getDynamicCpuUsage)          *)
(* Each part has its own specification over the variables it owns; the     *)
(* variables of the other parts stay unchanged.                            *)
(***************************************************************************)
EXTENDS Integers, Sequences, FiniteSets, TLC

VARIABLES
    config,      \* DynamicMonitor.config
    history,     \* DynamicMonitor.history
    intervalId,  \* DynamicMonitor.intervalId (NoTimer stands for null)
    isRunning,   \* DynamicMonitor.isRunning
    timers,      \* the runtime's active setInterval timers (their ids)
    inflight,    \* collectData executions suspended at their await, per timestamp
    now,         \* Date.now()
    out,         \* events emitted / console warnings written by the last call
    alerts,      \* AlertManager.alerts (Map rule id -> Alert)
    rules,       \* AlertManager.rules
    prevCond,    \* per rule: value of its condition on the previous data point
    amOut,       \* events emitted by the last AlertManager call
    pushed,      \* history specification: every data point added so far
    cpuStart,    \* system-info: getDynamicCpuUsage's first sample (its local start)
    cpuEnd,      \* system-info: what os.cpus() sums to now
    sampling,    \* system-info: a getDynamicCpuUsage call awaits its timeout
    collecting,  \* a tick's collectData at its await: the cpuInfo it has read
    mem,         \* system-info: os.totalmem() / os.freemem()
    reported,    \* system-info: the object returned by the last call
    changedAt,   \* ConfigSpec: the time of the last updateConfig that changed config
    held,        \* the alerts a reader got from getActiveAlerts / getAllAlerts
    resolvedOnce, \* rule ids whose alert was resolved since the last clearAlerts
    values,      \* TrendAnalyzer: the window of values a query is called with
    periods,     \* TrendAnalyzer: the periods argument (Unset: not given)
    returned,    \* the last query (getHistory, calculateTrend, ...) and its result
    emitted,     \* per rule: the 'alert' / 'alertResolved' events emitted so far
    monitorInterval, \* MemoryMonitor.monitorInterval (NoTimer stands for null)
    memTimers,   \* the runtime's active timers set by MemoryMonitor
    memHistory,  \* MemoryMonitor.history
    session,     \* redis: the hash sid_<sid> of the session (count field, ttl)
    requests,    \* per GET /count request: its position and its local variables
    shortTermHistory, \* OptimizedHistoryManager.shortTermHistory
    longTermHistory,  \* OptimizedHistoryManager.longTermHistory
    added,       \* the number of addDataPoint calls on the OptimizedHistoryManager
    arrays,      \* the array objects in memory, by reference
    historyArr   \* DynamicMonitor.history as a reference: the array it points to

monVars == <<config, history, intervalId, isRunning, timers, inflight, now, out>>
amVars  == <<alerts, rules, prevCond, amOut, resolvedOnce, held>>
siVars  == <<cpuStart, cpuEnd, sampling, collecting, mem, reported>>
queryVars == <<values, periods, returned>>
mmVars  == <<monitorInterval, memTimers, memHistory>>
sessVars == <<session, requests>>
ohmVars == <<shortTermHistory, longTermHistory, added>>
arrVars == <<arrays, historyArr>>
extVars == <<emitted, mmVars, sessVars, ohmVars, arrVars>>
vars    == <<monVars, changedAt, amVars, pushed, siVars, queryVars, extVars>>

----------------------------------------------------------------------------
(* Bounds of the model *)

MaxTime     == 1   \* the clock runs over 0..MaxTime
MaxInFlight == 2   \* collectData executions suspended at the same time
MaxTimers   == 2   \* timer ids the runtime can hand out at the same time

NoTimer == 0       \* intervalId = null
Unset   == -1      \* undefined: an optional field or argument that is not given

Times    == 0..MaxTime
TimerIds == 1..MaxTimers

(* cpu.usage values a collection can observe *)
CpuUsages == {50, 90}

(* the samples of a collection: cpu.usage, memory.usage and the usage of
   every disk *)
Samples ==
    { [cpu |-> 50, memory |-> 50, disk |-> <<50>>],
      [cpu |-> 90, memory |-> 50, disk |-> <<50>>],
      [cpu |-> 50, memory |-> 90, disk |-> <<50>>],
      [cpu |-> 50, memory |-> 50, disk |-> <<50, 95>>] }

(* the data point collectData builds from its timestamp and its samples *)
dataPoint(t, s) ==
    [timestamp |-> t, cpu |-> s.cpu, memory |-> s.memory, disk |-> s.disk]

----------------------------------------------------------------------------
(* DynamicMonitor *)

(* the constructor's default configuration *)
DefaultConfig ==
    [ interval     |-> 5000,
      historySize  |-> 1000,
      enableAlerts |-> TRUE,
      thresholds   |-> [cpu |-> 80, memory |-> 85, disk |-> 90] ]

(* { ...a, ...b }: every key of b overrides a's *)
Spread(a, b) ==
    [k \in (DOMAIN a) \cup (DOMAIN b) |-> IF k \in DOMAIN b THEN b[k] ELSE a[k]]

(* partial configurations handed to the constructor *)
CtorConfigs ==
    { [historySize |-> 2] }

(* partial configurations handed to updateConfig *)
NewConfigs ==
    { [historySize |-> 1],
      [historySize |-> 2],
      [enableAlerts |-> FALSE],
      [interval |-> -1000, historySize |-> 0] }

(* partial configurations as MonitoringConfigDto admits them: every setting,
   and every threshold of thresholds, is optional *)
PartialConfigs ==
    { [interval |-> 1000],
      [enableAlerts |-> FALSE],
      [thresholds |-> [cpu |-> 95]],
      [thresholds |-> [memory |-> 70, disk |-> 75]] }

(* the config bodies of start requests *)
StartConfigs == {[historySize |-> 1]}

EmptyMap == [r \in {} |-> 0]

(* the object's fields and what the runtime holds for it, as one value *)
Monitor ==
    [ config     |-> config,
      history    |-> history,
      intervalId |-> intervalId,
      isRunning  |-> isRunning,
      timers     |-> timers,
      inflight   |-> inflight,
      out        |-> <<>> ]

Count(f) ==
    LET S[t \in -1..MaxTime] == IF t = -1 THEN 0 ELSE S[t - 1] + f[t]
    IN  S[MaxTime]

InFlightCount == Count(inflight)

(* setInterval: the runtime hands out an id no active timer has *)
setInterval(active) ==
    IF TimerIds \ active = {}
    THEN MaxTimers + 1
    ELSE CHOOSE i \in TimerIds \ active : \A j \in TimerIds \ active : i <= j

(* clearInterval *)
clearInterval(active, id) == active \ {id}

(* collectData up to its await: the timestamp is taken, the samples are *)
(* requested, and the execution is suspended                            *)
collectDataBegin(m, t) ==
    [m EXCEPT !.inflight[t] = @ + 1]

(* start() with the guard on isRunning left out *)
startUnguarded(m, t) ==
    LET m1 == [m EXCEPT !.isRunning = TRUE, !.out = Append(@, "start")]
        m2 == collectDataBegin(m1, t)
        id == setInterval(m2.timers)
    IN  [m2 EXCEPT !.intervalId = id, !.timers = @ \cup {id}]

(* start() *)
start(m, t) ==
    IF m.isRunning
    THEN [m EXCEPT !.out = Append(@, "warn")]
    ELSE LET m1 == [m EXCEPT !.isRunning = TRUE, !.out = Append(@, "start")]
             m2 == collectDataBegin(m1, t)
             id == setInterval(m2.timers)
         IN  [m2 EXCEPT !.intervalId = id, !.timers = @ \cup {id}]

(* stop() that clears the timer but leaves isRunning set *)
stopKeepsRunning(m) ==
    IF ~m.isRunning
    THEN [m EXCEPT !.out = Append(@, "warn")]
    ELSE LET m2 == IF m.intervalId # NoTimer
                   THEN [m EXCEPT !.timers = clearInterval(@, m.intervalId),
                                  !.intervalId = NoTimer]
                   ELSE m
         IN  [m2 EXCEPT !.out = Append(@, "stop")]

(* stop() that forgets clearInterval *)
stopKeepsTimer(m) ==
    IF ~m.isRunning
    THEN [m EXCEPT !.out = Append(@, "warn")]
    ELSE [m EXCEPT !.isRunning = FALSE, !.intervalId = NoTimer,
                   !.out = Append(@, "stop")]

(* stop() *)
stop(m) ==
    IF ~m.isRunning
    THEN [m EXCEPT !.out = Append(@, "warn")]
    ELSE LET m1 == [m EXCEPT !.isRunning = FALSE]
             m2 == IF m1.intervalId # NoTimer
                   THEN [m1 EXCEPT !.timers = clearInterval(@, m1.intervalId),
                                   !.intervalId = NoTimer]
                   ELSE m1
         IN  [m2 EXCEPT !.out = Append(@, "stop")]

(* addDataPoint that evicts with pop() instead of shift(): the newest goes *)
addDataPointDropsNewest(h, p, size) ==
    LET h2 == Append(h, p)
    IN  IF Len(h2) > size THEN SubSeq(h2, 1, Len(h2) - 1) ELSE h2

(* addDataPoint: push, then one shift when the length exceeds historySize *)
addDataPoint(h, p, size) ==
    LET h2 == Append(h, p)
    IN  IF Len(h2) > size THEN Tail(h2) ELSE h2

(* x > thresholds[k]; the comparison with an undefined threshold is false *)
exceeds(x, cfg, k) ==
    k \in DOMAIN cfg.thresholds /\ x > cfg.thresholds[k]

(* DynamicMonitor.checkAlerts: one 'alert' event when the cpu usage, the
   memory usage or the usage of some disk exceeds its threshold *)
monitorCheckAlerts(p, cfg) ==
    IF \/ exceeds(p.cpu, cfg, "cpu")
       \/ exceeds(p.memory, cfg, "memory")
       \/ \E i \in DOMAIN p.disk : exceeds(p.disk[i], cfg, "disk")
    THEN <<"alert">> ELSE <<>>

(* collectData after its await, the samples having arrived *)
collectDataOk(m, p) ==
    [m EXCEPT !.inflight[p.timestamp] = @ - 1,
              !.history = addDataPoint(@, p, m.config.historySize),
              !.out = @ \o (IF m.config.enableAlerts
                            THEN monitorCheckAlerts(p, m.config)
                            ELSE <<>>) \o <<"data">>]

(* collectData after its await when the listener of its k-th event throws:
   the data point is in the history already, the events after the k-th are
   not emitted, and the catch block emits 'error' *)
collectDataListenerThrows(m, p, k) ==
    LET done == collectDataOk(m, p)
    IN  [done EXCEPT !.out = Append(SubSeq(@, 1, k), "error")]

(* a failed collection that also stops the monitor *)
collectDataErrorStops(m, t) ==
    [m EXCEPT !.inflight[t] = @ - 1, !.isRunning = FALSE,
              !.timers = clearInterval(@, m.intervalId), !.intervalId = NoTimer,
              !.out = Append(@, "error")]

(* collectData's catch block: the error is logged and emitted *)
collectDataError(m, t) ==
    [m EXCEPT !.inflight[t] = @ - 1, !.out = Append(@, "error")]

(* updateConfig(newConfig) *)
updateConfig(m, newConfig, t) ==
    LET wasRunning == m.isRunning
        m1 == IF wasRunning THEN stop(m) ELSE m
        m2 == [m1 EXCEPT !.config = Spread(m1.config, newConfig)]
        m3 == IF wasRunning THEN start(m2, t) ELSE m2
    IN  [m3 EXCEPT !.out = Append(@, "configUpdated")]

(* MonitoringController.startMonitoring(config?): body is <<>> for a request
   without a config and <<config>> for one with a config *)
startMonitoring(m, body, t) ==
    LET m1 == IF body # <<>> THEN updateConfig(m, body[1], t) ELSE m
    IN  start(m1, t)

(* clearHistory() *)
clearHistory(m) ==
    [m EXCEPT !.history = <<>>, !.out = Append(@, "historyCleared")]

Min(a, b) == IF a < b THEN a ELSE b
Max(a, b) == IF a > b THEN a ELSE b

(* Array.prototype.slice(start) for a start that may be negative *)
slice(q, begin) ==
    LET from == IF begin < 0 THEN Max(Len(q) + begin, 0) ELSE Min(begin, Len(q))
    IN  SubSeq(q, from + 1, Len(q))

(* getHistory(count?): `if (count)` is false for undefined and for 0 *)
getHistory(h, count) ==
    IF count # Unset /\ count # 0 THEN slice(h, -count) ELSE h

(* getHistory(count?) on the array objects: heap maps a reference to the
   elements of its array, own is this.history, and r is the reference of
   the array that slice() or the spread creates.  A variant whose plain call
   is `return this.history` hands out the monitor's own array. *)
getHistoryReturnsOwnArray(heap, own, count, r) ==
    IF count # Unset /\ count # 0
    THEN [arrays |-> [heap EXCEPT ![r] = slice(heap[own], -count)], ref |-> r]
    ELSE [arrays |-> heap, ref |-> own]

(* `this.history.slice(-count)` and `[...this.history]` each create an array
   and fill it with elements of this.history *)
getHistoryArray(heap, own, count, r) ==
    IF count # Unset /\ count # 0
    THEN [arrays |-> [heap EXCEPT ![r] = slice(heap[own], -count)], ref |-> r]
    ELSE [arrays |-> [heap EXCEPT ![r] = heap[own]], ref |-> r]

(* getStatus(); `history[0]?.timestamp || Date.now()` takes Date.now() for an
   empty history and for a timestamp of 0 *)
getStatus(m, t) ==
    LET since == IF m.history # <<>> /\ m.history[1].timestamp # 0
                 THEN m.history[1].timestamp ELSE t
    IN  [ isRunning  |-> m.isRunning,
          dataPoints |-> Len(m.history),
          uptime     |-> IF m.isRunning THEN t - since ELSE 0 ]

(* the constructor *)
newDynamicMonitor(c) ==
    [ config     |-> Spread(DefaultConfig, c),
      history    |-> <<>>,
      intervalId |-> NoTimer,
      isRunning  |-> FALSE,
      timers     |-> {},
      inflight   |-> [t \in Times |-> 0],
      out        |-> <<>> ]

Becomes(m) ==
    /\ config' = m.config
    /\ history' = m.history
    /\ intervalId' = m.intervalId
    /\ isRunning' = m.isRunning
    /\ timers' = m.timers
    /\ inflight' = m.inflight
    /\ out' = m.out

----------------------------------------------------------------------------
(* The monitor's actions *)

othersOfMonitor == <<changedAt, amVars, extVars, pushed, siVars, queryVars>>

(* a call of start(); it begins a collection unless the monitor runs *)
Start ==
    /\ (~isRunning) => (InFlightCount < MaxInFlight /\ timers # TimerIds)
    /\ Becomes(start(Monitor, now))
    /\ UNCHANGED <<now, othersOfMonitor>>

(* a call of stop() *)
Stop ==
    /\ Becomes(stop(Monitor))
    /\ UNCHANGED <<now, othersOfMonitor>>

(* the runtime fires an active interval timer: its callback calls collectData *)
TimerFire ==
    /\ timers # {}
    /\ InFlightCount < MaxInFlight
    /\ Becomes(collectDataBegin(Monitor, now))
    /\ UNCHANGED <<now, othersOfMonitor>>

(* a suspended collectData resumes with its samples *)
CollectOk ==
    \E t \in Times, s \in Samples :
        /\ inflight[t] > 0
        /\ Becomes(collectDataOk(Monitor, dataPoint(t, s)))
        /\ UNCHANGED <<now, othersOfMonitor>>

(* a suspended collectData resumes with its samples and a listener of one of
   the events it emits throws *)
CollectOkListenerThrows ==
    \E t \in Times, s \in Samples :
        /\ inflight[t] > 0
        /\ \E k \in 1..Len(collectDataOk(Monitor, dataPoint(t, s)).out) :
              Becomes(collectDataListenerThrows(Monitor, dataPoint(t, s), k))
        /\ UNCHANGED <<now, othersOfMonitor>>

(* a suspended collectData resumes with an error *)
CollectFail ==
    \E t \in Times :
        /\ inflight[t] > 0
        /\ Becomes(collectDataError(Monitor, t))
        /\ UNCHANGED <<now, othersOfMonitor>>

(* a call of updateConfig(newConfig) *)
UpdateConfig ==
    \E nc \in NewConfigs :
        /\ isRunning => InFlightCount < MaxInFlight
        /\ Becomes(updateConfig(Monitor, nc, now))
        /\ UNCHANGED <<now, othersOfMonitor>>

(* a call of updateConfig(newConfig) with a partial configuration, the call
   and the configuration before it being kept for the caller *)
UpdateConfigPartial ==
    \E nc \in PartialConfigs :
        /\ isRunning => InFlightCount < MaxInFlight
        /\ Becomes(updateConfig(Monitor, nc, now))
        /\ returned' = [call |-> "updateConfig", newConfig |-> nc, before |-> config]
        /\ UNCHANGED <<now, changedAt, amVars, extVars, pushed, siVars, values, periods>>

(* a POST /start request handled by MonitoringController.startMonitoring *)
StartMonitoring ==
    \E body \in {<<>>} \cup {<<nc>> : nc \in StartConfigs} :
        /\ (~isRunning \/ body # <<>>) =>
               (InFlightCount < MaxInFlight /\ (isRunning \/ timers # TimerIds))
        /\ Becomes(startMonitoring(Monitor, body, now))
        /\ UNCHANGED <<now, othersOfMonitor>>

(* a call of clearHistory() *)
ClearHistory ==
    /\ Becomes(clearHistory(Monitor))
    /\ UNCHANGED <<now, othersOfMonitor>>

(* time passes *)
AdvanceClock ==
    /\ now < MaxTime
    /\ now' = now + 1
    /\ UNCHANGED <<config, history, intervalId, isRunning, timers, inflight, out,
                   othersOfMonitor>>

----------------------------------------------------------------------------
(* AlertManager *)

MaxRules == 2      \* rules registered with addRule

(* the ids of defaultAlertRules, in their order *)
RuleIds == {"high-cpu", "critical-cpu", "high-memory", "critical-memory", "high-disk"}

(* rule.level *)
level(r) ==
    IF r \in {"critical-cpu", "critical-memory"} THEN "critical" ELSE "warning"

(* data points handed to checkAlerts *)
AlertPoints ==
    { [cpu |-> 70, memory |-> 50, disk |-> <<50>>],
      [cpu |-> 85, memory |-> 90, disk |-> <<50, 95>>],
      [cpu |-> 97, memory |-> 97, disk |-> <<>>] }

(* data points that lack the disk list *)
PointsWithoutDisk ==
    { [cpu |-> 85, memory |-> 50],
      [cpu |-> 97, memory |-> 97] }

(* rule.condition(dataPoint) raises a TypeError: it reads a property of a part
   of the data point that is undefined *)
throws(r, p) ==
    CASE r \in {"high-cpu", "critical-cpu"}       -> "cpu" \notin DOMAIN p
      [] r \in {"high-memory", "critical-memory"} -> "memory" \notin DOMAIN p
      [] r = "high-disk"                          -> "disk" \notin DOMAIN p

(* rule.condition(dataPoint) of the default rules *)
condition(r, p) ==
    CASE r = "high-cpu"        -> p.cpu > 80
      [] r = "critical-cpu"    -> p.cpu > 95
      [] r = "high-memory"     -> p.memory > 85
      [] r = "critical-memory" -> p.memory > 95
      [] r = "high-disk"       -> \E i \in DOMAIN p.disk : p.disk[i] > 90

Registered(rs) == {rs[i] : i \in DOMAIN rs}

Put(map, k, v) == [x \in (DOMAIN map) \cup {k} |-> IF x = k THEN v ELSE map[x]]

(* the body of checkAlerts' forEach, raising on every data point on which *)
(* the condition is true                                                  *)
checkRuleLevelTriggered(am, r, p, t) ==
    IF condition(r, p)
    THEN [alerts |-> Put(am.alerts, r,
                         [id |-> r, level |-> level(r), timestamp |-> t,
                          resolved |-> FALSE, resolvedAt |-> Unset, data |-> p]),
          events |-> Append(am.events, [type |-> "alert", id |-> r])]
    ELSE IF r \in DOMAIN am.alerts /\ ~am.alerts[r].resolved
         THEN [alerts |-> [am.alerts EXCEPT ![r].resolved = TRUE,
                                            ![r].resolvedAt = t],
               events |-> Append(am.events, [type |-> "alertResolved", id |-> r])]
         ELSE am

(* the body of checkAlerts' forEach, re-opening the resolved record of the
   rule instead of replacing it by a new one *)
checkRuleReopens(am, r, p, t) ==
    IF condition(r, p)
    THEN IF r \notin DOMAIN am.alerts
         THEN [alerts |-> Put(am.alerts, r,
                              [id |-> r, level |-> level(r), timestamp |-> t,
                               resolved |-> FALSE, resolvedAt |-> Unset, data |-> p]),
               events |-> Append(am.events, [type |-> "alert", id |-> r])]
         ELSE IF am.alerts[r].resolved
         THEN [alerts |-> [am.alerts EXCEPT ![r].resolved = FALSE],
               events |-> Append(am.events, [type |-> "alert", id |-> r])]
         ELSE am
    ELSE IF r \in DOMAIN am.alerts /\ ~am.alerts[r].resolved
         THEN [alerts |-> [am.alerts EXCEPT ![r].resolved = TRUE,
                                            ![r].resolvedAt = t],
               events |-> Append(am.events, [type |-> "alertResolved", id |-> r])]
         ELSE am

(* the body of checkAlerts' forEach for one rule *)
checkRule(am, r, p, t) ==
    IF condition(r, p)
    THEN IF r \notin DOMAIN am.alerts \/ am.alerts[r].resolved
         THEN [alerts |-> Put(am.alerts, r,
                              [id |-> r, level |-> level(r), timestamp |-> t,
                               resolved |-> FALSE, resolvedAt |-> Unset, data |-> p]),
               events |-> Append(am.events, [type |-> "alert", id |-> r])]
         ELSE am
    ELSE IF r \in DOMAIN am.alerts /\ ~am.alerts[r].resolved
         THEN [alerts |-> [am.alerts EXCEPT ![r].resolved = TRUE,
                                            ![r].resolvedAt = t],
               events |-> Append(am.events, [type |-> "alertResolved", id |-> r])]
         ELSE am

(* checkAlerts(dataPoint): the rules in registration order; an exception of
   a condition leaves forEach, and checkAlerts, at once (thrown) *)
checkAlerts(as, rs, p, t) ==
    LET F[i \in 0..Len(rs)] ==
            IF i = 0 THEN [alerts |-> as, events |-> <<>>, thrown |-> FALSE]
            ELSE LET before == F[i - 1]
                 IN  IF before.thrown \/ throws(rs[i], p)
                     THEN [before EXCEPT !.thrown = TRUE]
                     ELSE LET am == checkRule(before, rs[i], p, t)
                          IN  [alerts |-> am.alerts, events |-> am.events,
                               thrown |-> FALSE]
    IN  F[Len(rs)]

(* getAllAlerts(): Array.from(this.alerts.values()), an array of the Alert
   objects of the Map themselves; live marks an object that is still the
   one the Map holds *)
getAllAlerts(as) == [r \in DOMAIN as |-> [alert |-> as[r], live |-> TRUE]]

(* getActiveAlerts(): the same objects, filtered by !alert.resolved *)
getActiveAlerts(as) ==
    [r \in {x \in DOMAIN as : ~as[x].resolved} |-> [alert |-> as[r], live |-> TRUE]]

(* what a reader sees of the objects it holds after a checkAlerts that emitted
   events and left the map newAlerts: an 'alert' put a new object into the
   Map in place of the one held, otherwise the held object is the Map's and
   shows its resolved / resolvedAt *)
seenAfterCheck(h, events, newAlerts) ==
    [r \in DOMAIN h |->
        IF ~h[r].live THEN h[r]
        ELSE IF \E i \in DOMAIN events : events[i] = [type |-> "alert", id |-> r]
             THEN [h[r] EXCEPT !.live = FALSE]
             ELSE [h[r] EXCEPT !.alert = newAlerts[r]]]

(* after clearAlerts the Map holds none of the objects a reader has *)
seenAfterClear(h) == [r \in DOMAIN h |-> [h[r] EXCEPT !.live = FALSE]]

(* addRule(rule) *)
addRule(rs, r) == Append(rs, r)

(* clearAlerts() *)
clearAlerts(as) == [alerts |-> EmptyMap, events |-> <<[type |-> "alertsCleared"]>>]

othersOfAlertManager == <<monVars, changedAt, pushed, siVars, queryVars, extVars>>

(* a call of addRule(rule) with one of the default rules *)
AddRule ==
    \E r \in RuleIds :
        /\ Len(rules) < MaxRules
        /\ rules' = addRule(rules, r)
        /\ amOut' = [call |-> "addRule", events |-> <<>>]
        /\ UNCHANGED <<alerts, prevCond, resolvedOnce, held, othersOfAlertManager>>

(* what a call of checkAlerts(p) does to the AlertManager and its readers *)
CheckAlertsCall(p) ==
    LET am == checkAlerts(alerts, rules, p, now)
    IN  /\ alerts' = am.alerts
        /\ amOut' = [call |-> "checkAlerts", events |-> am.events,
                     thrown |-> am.thrown]
        /\ prevCond' = [r \in RuleIds |->
                           IF r \in Registered(rules) /\ ~throws(r, p)
                           THEN condition(r, p) ELSE prevCond[r]]
        /\ resolvedOnce' = resolvedOnce \cup
               {r \in DOMAIN alerts' : alerts'[r].resolved}
        /\ held' = (IF held.call = "none" THEN held
                    ELSE [held EXCEPT !.result = seenAfterCheck(@, amOut'.events, alerts')])
        /\ UNCHANGED rules

(* a call of checkAlerts(p) *)
CheckAlertsOn(p) == CheckAlertsCall(p) /\ UNCHANGED othersOfAlertManager

CheckAlerts == \E p \in AlertPoints : CheckAlertsOn(p)

(* a call of checkAlerts(p) with a data point that has no disk list *)
CheckAlertsWithoutDisk == \E p \in PointsWithoutDisk : CheckAlertsOn(p)

(* what a call of clearAlerts() does to the AlertManager and its readers *)
ClearAlertsCall ==
    LET am == clearAlerts(alerts)
    IN  /\ alerts' = am.alerts
        /\ amOut' = [call |-> "clearAlerts", events |-> am.events]
        /\ prevCond' = [r \in RuleIds |-> FALSE]
        /\ resolvedOnce' = {}
        /\ held' = (IF held.call = "none" THEN held
                    ELSE [held EXCEPT !.result = seenAfterClear(@)])
        /\ UNCHANGED rules

(* a call of clearAlerts() *)
ClearAlerts == ClearAlertsCall /\ UNCHANGED othersOfAlertManager

MaxEvents == 3     \* every rule emits at most MaxEvents 'alert' events

(* the number of events of one type that a call emitted for rule r *)
EventCount(events, type, r) ==
    Cardinality({i \in DOMAIN events : events[i] = [type |-> type, id |-> r]})

(* the events emitted so far, the events of one more call included *)
emittedAfter(e, events) ==
    [r \in RuleIds |->
        [alert         |-> e[r].alert + EventCount(events, "alert", r),
         alertResolved |-> e[r].alertResolved + EventCount(events, "alertResolved", r)]]

(* a listener on 'alert' and 'alertResolved' counting what checkAlerts emits *)
CheckAlertsCounted ==
    \E p \in AlertPoints :
        /\ CheckAlertsCall(p)
        /\ emitted' = emittedAfter(emitted, amOut'.events)
        /\ \A r \in RuleIds : emitted'[r].alert <= MaxEvents
        /\ UNCHANGED <<monVars, changedAt, pushed, siVars, queryVars, mmVars, sessVars,
                       ohmVars, arrVars>>

(* the same listener across clearAlerts *)
ClearAlertsCounted ==
    /\ ClearAlertsCall
    /\ emitted' = emittedAfter(emitted, amOut'.events)
    /\ UNCHANGED <<monVars, changedAt, pushed, siVars, queryVars, mmVars, sessVars,
                   ohmVars, arrVars>>

(* a reader calls getActiveAlerts() and keeps what it returns *)
GetActiveAlerts ==
    /\ held.call = "none"
    /\ held' = [call |-> "getActiveAlerts", result |-> getActiveAlerts(alerts)]
    /\ UNCHANGED <<alerts, rules, prevCond, amOut, resolvedOnce, othersOfAlertManager>>

(* a reader calls getAllAlerts() and keeps what it returns *)
GetAllAlerts ==
    /\ held.call = "none"
    /\ held' = [call |-> "getAllAlerts", result |-> getAllAlerts(alerts)]
    /\ UNCHANGED <<alerts, rules, prevCond, amOut, resolvedOnce, othersOfAlertManager>>

----------------------------------------------------------------------------
(* system-info: getCpuInfo, getMemInfo, getDynamicCpuUsage *)

MaxCounter == 2    \* each cumulative CPU counter ranges over 0..MaxCounter
MaxBytes   == 3    \* os.totalmem() ranges over 0..MaxBytes

(* os.cpus() times summed over the cores *)
CpuTimes == [user : 0..MaxCounter, sys : 0..MaxCounter, idle : 0..MaxCounter]

(* a JavaScript number as the percentage strings carry it: a finite value *)
(* in hundredths (two decimals), or NaN, Infinity, -Infinity              *)
Num(h)  == [kind |-> "number", h |-> h]
NaN     == [kind |-> "NaN", h |-> 0]
PosInf  == [kind |-> "Infinity", h |-> 0]
NegInf  == [kind |-> "-Infinity", h |-> 0]

Abs(x) == IF x < 0 THEN -x ELSE x

(* ((a / b) * 100).toFixed(2): division by zero gives NaN or an infinity, *)
(* toFixed rounds to the nearest hundredth, halves away from zero         *)
percent(a, b) ==
    IF b = 0
    THEN (IF a = 0 THEN NaN ELSE IF a > 0 THEN PosInf ELSE NegInf)
    ELSE LET q == (2 * Abs(a) * 10000 + Abs(b)) \div (2 * Abs(b))
         IN  Num(IF (a < 0) = (b < 0) THEN q ELSE -q)

(* getCpuInfo() on the summed counters *)
getCpuInfo(times) ==
    LET total == times.user + times.sys + times.idle
    IN  [ call |-> "getCpuInfo",
          sys  |-> percent(times.sys, total),
          used |-> percent(times.user, total),
          free |-> percent(times.idle, total) ]

(* getMemInfo() *)
getMemInfo(totalMemory, freeMemory) ==
    LET usedMemory == totalMemory - freeMemory
    IN  [ call  |-> "getMemInfo",
          usage |-> percent(usedMemory, totalMemory) ]

(* getDynamicCpuUsage() on its two samples *)
getDynamicCpuUsage(first, second) ==
    LET delta == [ user |-> second.user - first.user,
                   sys  |-> second.sys - first.sys,
                   idle |-> second.idle - first.idle ]
        total == delta.user + delta.sys + delta.idle
    IN  [ call |-> "getDynamicCpuUsage",
          sys  |-> percent(delta.sys, total),
          used |-> percent(delta.user, total),
          free |-> percent(delta.idle, total) ]

(* parseFloat(s.replace('%', '')) of a percentage string: the number the
   string spells (two decimals), NaN for 'NaN%', an infinity for 'Infinity%' *)
parseFloat(v) ==
    CASE v.kind = "number"    -> Num(v.h)
      [] v.kind = "NaN"       -> NaN
      [] v.kind = "Infinity"  -> PosInf
      [] v.kind = "-Infinity" -> NegInf

(* DynamicMonitor.getCpuUsage(): it returns getCpuInfo() on the counters as
   they stand when the tick runs *)
getCpuUsage(times) == getCpuInfo(times)

(* the cpu.usage that collectData stores in its data point:
   parseFloat(cpuInfo.used.replace('%', '')) *)
collectedCpuUsage(cpuInfo) == parseFloat(cpuInfo.used)

othersOfSysInfo == <<monVars, changedAt, amVars, extVars, pushed, queryVars>>

(* a tick's collectData up to its await, as to the CPU: getCpuUsage() reads
   the counters as they stand (cpuEnd) and the tick waits for Promise.all *)
CollectCpuUsageBegin ==
    /\ reported.call = "none"
    /\ collecting = <<>>
    /\ collecting' = <<getCpuUsage(cpuEnd)>>
    /\ UNCHANGED <<cpuStart, cpuEnd, sampling, mem, reported, othersOfSysInfo>>

(* Promise.all resolves: the tick builds its data point from the cpuInfo it
   read before the await, whatever the counters have become *)
CollectCpuUsageEnd ==
    /\ collecting # <<>>
    /\ reported' = [call |-> "collectData", usage |-> collectedCpuUsage(collecting[1])]
    /\ collecting' = <<>>
    /\ UNCHANGED <<cpuStart, cpuEnd, sampling, mem, othersOfSysInfo>>

(* a call of getDynamicCpuUsage() up to its await: the first sample is taken
   and the call waits for its timeout of one second *)
GetDynamicCpuUsageBegin ==
    /\ reported.call = "none"
    /\ ~sampling
    /\ cpuStart' = cpuEnd
    /\ sampling' = TRUE
    /\ UNCHANGED <<cpuEnd, collecting, mem, reported, othersOfSysInfo>>

(* the operating system's counters change while a call waits (a counter
   that is reset or wraps around has decreased) *)
CpuTimesChange ==
    /\ sampling \/ collecting # <<>>
    /\ cpuEnd' \in CpuTimes \ {cpuEnd}
    /\ UNCHANGED <<cpuStart, sampling, collecting, mem, reported, othersOfSysInfo>>

(* the timeout of getDynamicCpuUsage() fires: the second sample is taken and
   the promise resolves *)
GetDynamicCpuUsageEnd ==
    /\ sampling
    /\ reported' = getDynamicCpuUsage(cpuStart, cpuEnd)
    /\ sampling' = FALSE
    /\ UNCHANGED <<cpuStart, cpuEnd, collecting, mem, othersOfSysInfo>>

(* a call of getCpuInfo(): cpuEnd is what os.cpus() sums to *)
GetCpuInfo ==
    /\ reported.call = "none"
    /\ reported' = getCpuInfo(cpuEnd)
    /\ UNCHANGED <<cpuStart, cpuEnd, sampling, collecting, mem, othersOfSysInfo>>

(* a call of getMemInfo() *)
GetMemInfo ==
    /\ reported.call = "none"
    /\ reported' = getMemInfo(mem.total, mem.free)
    /\ UNCHANGED <<cpuStart, cpuEnd, sampling, collecting, mem, othersOfSysInfo>>

----------------------------------------------------------------------------
(* TrendAnalyzer: static functions of a window of numbers.  Numbers are
   exact fractions num/den in lowest terms with den > 0. *)

MaxWindow  == 4    \* windows of 0..MaxWindow values
MaxPeriods == 2    \* predictTrend is asked for 0..MaxPeriods periods, or the default

TrendValues == {0, 10, 20, 21, 50, 90}

DefaultPeriods == 5

RECURSIVE GCD(_, _)
GCD(a, b) == IF b = 0 THEN a ELSE GCD(b, a % b)

(* the number n / d, d # 0 *)
Frac(n, d) ==
    LET g == GCD(Abs(n), Abs(d))
        sgn == IF d < 0 THEN -1 ELSE 1
    IN  [num |-> (sgn * n) \div g, den |-> (sgn * d) \div g]

Whole(k) == Frac(k, 1)

FracAdd(a, b) == Frac(a.num * b.den + b.num * a.den, a.den * b.den)
FracSub(a, b) == Frac(a.num * b.den - b.num * a.den, a.den * b.den)
FracMul(a, b) == Frac(a.num * b.num, a.den * b.den)
FracDiv(a, b) == Frac(a.num * b.den, a.den * b.num)
FracLess(a, b) == a.num * b.den < b.num * a.den
FracAbs(a) == [num |-> Abs(a.num), den |-> a.den]
FracMin(a, b) == IF FracLess(b, a) THEN b ELSE a
FracMax(a, b) == IF FracLess(a, b) THEN b ELSE a

(* values.reduce((sum, value) => sum + value, 0) *)
RECURSIVE Sum(_)
Sum(q) == IF q = <<>> THEN 0 ELSE Head(q) + Sum(Tail(q))

calculateAverage(vs) ==
    IF Len(vs) = 0 THEN Whole(0) ELSE Frac(Sum(vs), Len(vs))

(* a variant that also calls a change of exactly 5% stable *)
calculateTrendInclusive(vs) ==
    IF Len(vs) < 2 THEN "stable"
    ELSE LET firstAvg == calculateAverage(SubSeq(vs, 1, Len(vs) \div 2))
             secondAvg == calculateAverage(slice(vs, Len(vs) \div 2))
             difference == FracSub(secondAvg, firstAvg)
             threshold == FracMul(firstAvg, Frac(5, 100))
         IN  IF ~FracLess(threshold, FracAbs(difference)) THEN "stable"
             ELSE IF difference.num > 0 THEN "up" ELSE "down"

calculateTrend(vs) ==
    IF Len(vs) < 2 THEN "stable"
    ELSE LET firstHalf == SubSeq(vs, 1, Len(vs) \div 2)
             secondHalf == slice(vs, Len(vs) \div 2)
             firstAvg == calculateAverage(firstHalf)
             secondAvg == calculateAverage(secondHalf)
             difference == FracSub(secondAvg, firstAvg)
             threshold == FracMul(firstAvg, Frac(5, 100))
         IN  IF FracLess(FracAbs(difference), threshold) THEN "stable"
             ELSE IF difference.num > 0 THEN "up" ELSE "down"

(* the sums of the linear regression over x = 0..n-1, y = values *)
sumX(vs) == Sum([i \in 1..Len(vs) |-> i - 1])
sumY(vs) == Sum(vs)
sumXY(vs) == Sum([i \in 1..Len(vs) |-> (i - 1) * vs[i]])
sumXX(vs) == Sum([i \in 1..Len(vs) |-> (i - 1) * (i - 1)])

slope(vs) ==
    Frac(Len(vs) * sumXY(vs) - sumX(vs) * sumY(vs),
         Len(vs) * sumXX(vs) - sumX(vs) * sumX(vs))

intercept(vs) ==
    FracDiv(FracSub(Whole(sumY(vs)), FracMul(slope(vs), Whole(sumX(vs)))),
            Whole(Len(vs)))

(* a variant that extrapolates one index too far: to n + i instead of n + i - 1 *)
predictTrendFromNextIndex(vs, per) ==
    IF Len(vs) < 3 THEN <<>>
    ELSE LET n == Len(vs)
             count == IF per = Unset THEN DefaultPeriods ELSE per
         IN  [i \in 1..count |->
                 FracMax(Whole(0), FracMin(Whole(100),
                     FracAdd(FracMul(slope(vs), Whole(n + i)), intercept(vs))))]

predictTrend(vs, per) ==
    IF Len(vs) < 3 THEN <<>>
    ELSE LET n == Len(vs)
             count == IF per = Unset THEN DefaultPeriods ELSE per
             predictedValue(i) ==
                 FracAdd(FracMul(slope(vs), Whole(n + i - 1)), intercept(vs))
         IN  [i \in 1..count |->
                 FracMax(Whole(0), FracMin(Whole(100), predictedValue(i)))]

othersOfTrendAnalyzer == <<monVars, changedAt, amVars, extVars, pushed, siVars>>

(* a call of TrendAnalyzer.predictTrend(values, periods) or predictTrend(values) *)
PredictTrend ==
    /\ returned.call = "none"
    /\ returned' = [call |-> "predictTrend", result |-> predictTrend(values, periods)]
    /\ UNCHANGED <<values, periods, othersOfTrendAnalyzer>>

(* a call of TrendAnalyzer.calculateTrend(values) *)
CalculateTrend ==
    /\ returned.call = "none"
    /\ returned' = [call |-> "calculateTrend", result |-> calculateTrend(values)]
    /\ UNCHANGED <<values, periods, othersOfTrendAnalyzer>>

----------------------------------------------------------------------------
(* Initial states and specifications *)

(* the other parts before any of their operations *)
AlertManagerIdle ==
    /\ alerts = EmptyMap
    /\ rules = <<>>
    /\ prevCond = [r \in RuleIds |-> FALSE]
    /\ amOut = [call |-> "new", events |-> <<>>]
    /\ resolvedOnce = {}
    /\ held = [call |-> "none"]

SysInfoIdle ==
    /\ cpuStart = [user |-> 0, sys |-> 0, idle |-> 0]
    /\ cpuEnd = [user |-> 0, sys |-> 0, idle |-> 0]
    /\ sampling = FALSE
    /\ collecting = <<>>
    /\ mem = [total |-> 0, free |-> 0]
    /\ reported = [call |-> "none"]

MonitorInit ==
    \E c \in CtorConfigs :
        LET m == newDynamicMonitor(c)
        IN  /\ config = m.config
            /\ history = m.history
            /\ intervalId = m.intervalId
            /\ isRunning = m.isRunning
            /\ timers = m.timers
            /\ inflight = m.inflight
            /\ out = m.out
            /\ now = 0
            /\ changedAt = Unset

----------------------------------------------------------------------------
(* AppController.count over SessionService and RedisService, for requests
   that carry the cookie of one session *)

MaxRequests == 3          \* GET /count requests 1..MaxRequests
Requests == 1..MaxRequests

sessionTtl == 1800        \* setSession's default ttl: 30 * 60 seconds

(* redis keeps a field's value as a string: the decimal digits of a number *)
RECURSIVE toDigits(_)
toDigits(n) == IF n < 10 THEN <<n>> ELSE Append(toDigits(n \div 10), n % 10)

(* parseInt of a string of decimal digits *)
RECURSIVE parseInt(_)
parseInt(s) ==
    IF Len(s) = 1 THEN s[1]
    ELSE parseInt(SubSeq(s, 1, Len(s) - 1)) * 10 + s[Len(s)]

(* getSession(sid): hGetAll of the session's hash, null for an empty one;
   <<>> stands for a hash without a count field *)
getSession(hash) == hash.count

(* count's new value from the session data it read: sessionData?.count ?
   parseInt(sessionData.count) + 1 : 1 *)
currentCount(sessionData) ==
    IF sessionData # <<>> THEN parseInt(sessionData) + 1 ELSE 1

(* hashSet's loop: hSet(key, 'count', value) *)
hSet(hash, value) == [hash EXCEPT !.count = toDigits(value)]

(* hashSet's expire(key, ttl) *)
expire(hash, ttl) == [hash EXCEPT !.ttl = ttl]

othersOfSession ==
    <<monVars, changedAt, amVars, emitted, mmVars, ohmVars, arrVars, pushed,
      siVars, queryVars>>

(* a request arrives: count() runs up to the await of getSession *)
CountCalled(r) ==
    /\ requests[r].pc = "new"
    /\ requests' = [requests EXCEPT ![r] = [pc |-> "hashGet"]]
    /\ UNCHANGED <<session, othersOfSession>>

(* hGetAll answers: currentCount is computed and setSession is called, up to
   the await of hSet *)
CountGotSession(r) ==
    /\ requests[r].pc = "hashGet"
    /\ requests' = [requests EXCEPT ![r] =
                       [pc |-> "hSet",
                        currentCount |-> currentCount(getSession(session))]]
    /\ UNCHANGED <<session, othersOfSession>>

(* redis executes the hSet *)
CountFieldSet(r) ==
    /\ requests[r].pc = "hSet"
    /\ session' = hSet(session, requests[r].currentCount)
    /\ requests' = [requests EXCEPT ![r].pc = "expire"]
    /\ UNCHANGED othersOfSession

(* redis executes the expire; setSession returns, the cookie is set and the
   response { count: currentCount } is sent *)
CountResponds(r) ==
    /\ requests[r].pc = "expire"
    /\ session' = expire(session, sessionTtl)
    /\ requests' = [requests EXCEPT ![r] =
                       [pc |-> "done", response |-> requests[r].currentCount]]
    /\ UNCHANGED othersOfSession

CountNext ==
    \E r \in Requests :
        \/ CountCalled(r)
        \/ CountGotSession(r)
        \/ CountFieldSet(r)
        \/ CountResponds(r)

----------------------------------------------------------------------------
(* OptimizedHistoryManager *)

MaxPoints == 125          \* addDataPoint is called at most MaxPoints times

shortTermSize    == 100   \* the limit of shortTermHistory in addDataPoint
longTermSize     == 1000  \* the limit of longTermHistory in addDataPoint
compressionRatio == 10    \* OptimizedHistoryManager.compressionRatio

(* cpu.usage of the data points, in hundredths of a percent *)
UsageHundredths == {5049, 8950}

(* Math.round of a non-negative value given in hundredths *)
round(h) == (h + 50) \div 100

(* shouldCompress(dataPoint) *)
shouldCompress(long) == Len(long) % compressionRatio = 0

(* compressDataPoint(dataPoint): the usage is rounded *)
compressDataPoint(p) == [timestamp |-> p.timestamp, usage |-> round(p.usage)]

(* OptimizedHistoryManager.addDataPoint(dataPoint) *)
optimizedAddDataPoint(hm, p) ==
    LET pushedShort == Append(hm.short, p)
        evicts == Len(pushedShort) > shortTermSize
        short == IF evicts THEN Tail(pushedShort) ELSE pushedShort
        long == IF evicts /\ shouldCompress(hm.long)
                THEN Append(hm.long, compressDataPoint(Head(pushedShort)))
                ELSE hm.long
    IN  [short |-> short,
         long  |-> IF Len(long) > longTermSize THEN Tail(long) ELSE long]

(* a call of addDataPoint: the points of one run carry increasing timestamps
   and the usage of the machine's steady load *)
AddOptimizedDataPoint ==
    \E u \in UsageHundredths :
        LET hm == optimizedAddDataPoint(
                      [short |-> shortTermHistory, long |-> longTermHistory],
                      [timestamp |-> added, usage |-> u])
        IN  /\ added < MaxPoints
            /\ shortTermHistory # <<>> => u = shortTermHistory[1].usage
            /\ shortTermHistory' = hm.short
            /\ longTermHistory' = hm.long
            /\ added' = added + 1
            /\ UNCHANGED <<monVars, changedAt, amVars, emitted, mmVars, sessVars,
                           arrVars, pushed, siVars, queryVars>>

MaxArrays == 3     \* array objects that exist at a time

(* references to array objects *)
Refs == 1..MaxArrays

(* no event has been emitted; a MemoryMonitor as constructed; the monitor's
   history is the one array there is, and it is empty *)
ExtIdle ==
    /\ emitted = [r \in RuleIds |-> [alert |-> 0, alertResolved |-> 0]]
    /\ monitorInterval = NoTimer
    /\ memTimers = {}
    /\ memHistory = <<>>
    /\ session = [count |-> <<>>, ttl |-> Unset]
    /\ requests = [r \in Requests |-> [pc |-> "new"]]
    /\ shortTermHistory = <<>>
    /\ longTermHistory = <<>>
    /\ added = 0
    /\ arrays = [r \in Refs |-> <<>>]
    /\ historyArr = 1

NoQuery ==
    /\ values = <<>>
    /\ periods = Unset
    /\ returned = [call |-> "none"]

Init ==
    /\ MonitorInit
    /\ AlertManagerIdle
    /\ SysInfoIdle
    /\ pushed = <<>>
    /\ ExtIdle
    /\ NoQuery

Next ==
    \/ Start
    \/ Stop
    \/ TimerFire
    \/ CollectOk
    \/ CollectOkListenerThrows
    \/ CollectFail
    \/ UpdateConfig
    \/ StartMonitoring
    \/ ClearHistory
    \/ AdvanceClock

(* the DynamicMonitor under any sequence of calls, timer firings and completions *)
Spec == Init /\ [][Next]_vars

MonitorIdle ==
    LET m == newDynamicMonitor(EmptyMap)
    IN  /\ config = m.config
        /\ history = m.history
        /\ intervalId = m.intervalId
        /\ isRunning = m.isRunning
        /\ timers = m.timers
        /\ inflight = m.inflight
        /\ out = m.out
        /\ now = 0
        /\ changedAt = Unset

AlertInit ==
    /\ MonitorIdle
    /\ AlertManagerIdle
    /\ SysInfoIdle
    /\ pushed = <<>>
    /\ ExtIdle
    /\ NoQuery

AlertNext ==
    \/ AddRule
    \/ CheckAlerts
    \/ ClearAlerts
    \/ AdvanceClock

(* the AlertManager under any sequence of addRule, checkAlerts and clearAlerts *)
AlertSpec == AlertInit /\ [][AlertNext]_vars

AlertCountedNext ==
    \/ AddRule
    \/ CheckAlertsCounted
    \/ ClearAlertsCounted
    \/ AdvanceClock

----------------------------------------------------------------------------
(* MemoryMonitor (DiskMonitor has the same startMonitoring / stopMonitoring) *)

MaxRecords == 3           \* recording ticks are followed up to MaxRecords records
maxHistorySize == 100     \* MemoryMonitor.maxHistorySize

(* startMonitoring(intervalMs): the handle of a new interval timer is stored *)
memStartMonitoring(mm) ==
    LET id == setInterval(mm.timers)
    IN  [mm EXCEPT !.monitorInterval = id, !.timers = @ \cup {id}]

(* stopMonitoring() *)
memStopMonitoring(mm) ==
    IF mm.monitorInterval # NoTimer
    THEN [mm EXCEPT !.timers = clearInterval(@, mm.monitorInterval),
                    !.monitorInterval = NoTimer]
    ELSE mm

(* recordMemoryUsage(): usage is (used / total) * 100, kept as the quotient's
   terms *)
recordMemoryUsage(mm, m, t) ==
    LET used == m.total - m.free
        record == [timestamp |-> t, total |-> m.total, used |-> used,
                   free |-> m.free, usage |-> [num |-> used * 100, den |-> m.total]]
        h == Append(mm.history, record)
    IN  [mm EXCEPT !.history = IF Len(h) > maxHistorySize THEN Tail(h) ELSE h]

MemoryMonitor ==
    [monitorInterval |-> monitorInterval, timers |-> memTimers, history |-> memHistory]

MemoryMonitorBecomes(mm) ==
    /\ monitorInterval' = mm.monitorInterval
    /\ memTimers' = mm.timers
    /\ memHistory' = mm.history

othersOfMemoryMonitor ==
    <<monVars, changedAt, amVars, emitted, sessVars, ohmVars, arrVars, pushed,
      siVars, queryVars>>

StartMemoryMonitoring ==
    /\ memTimers # TimerIds
    /\ MemoryMonitorBecomes(memStartMonitoring(MemoryMonitor))
    /\ UNCHANGED othersOfMemoryMonitor

StopMemoryMonitoring ==
    /\ MemoryMonitorBecomes(memStopMonitoring(MemoryMonitor))
    /\ UNCHANGED othersOfMemoryMonitor

(* the runtime fires one of the active timers: recordMemoryUsage() *)
MemoryTimerFire ==
    /\ memTimers # {}
    /\ Len(memHistory) < MaxRecords
    /\ MemoryMonitorBecomes(recordMemoryUsage(MemoryMonitor, mem, now))
    /\ UNCHANGED othersOfMemoryMonitor

MemoryMonitorNext ==
    \/ StartMemoryMonitoring
    \/ StopMemoryMonitoring
    \/ MemoryTimerFire
    \/ AdvanceClock

(* a MemoryMonitor on a machine with some total and free memory *)
MemoryMonitorInit ==
    /\ MonitorIdle
    /\ AlertManagerIdle
    /\ pushed = <<>>
    /\ ExtIdle
    /\ NoQuery
    /\ cpuStart = [user |-> 0, sys |-> 0, idle |-> 0]
    /\ cpuEnd = [user |-> 0, sys |-> 0, idle |-> 0]
    /\ sampling = FALSE
    /\ collecting = <<>>
    /\ mem \in {m \in [total : 0..MaxBytes, free : 0..MaxBytes] : m.free <= m.total}
    /\ reported = [call |-> "none"]

MemoryMonitorSpec == MemoryMonitorInit /\ [][MemoryMonitorNext]_vars

OptimizedHistoryNext == AddOptimizedDataPoint

(* an OptimizedHistoryManager that is fed data points *)
OptimizedHistorySpec == AlertInit /\ [][OptimizedHistoryNext]_vars

(* GET /count requests of one session, interleaved at their awaits *)
CountSpec == AlertInit /\ [][CountNext]_vars

(* the AlertManager with a listener that counts its events *)
AlertCountedSpec == AlertInit /\ [][AlertCountedNext]_vars

AlertAnyPointNext ==
    \/ AddRule
    \/ CheckAlerts
    \/ CheckAlertsWithoutDisk
    \/ ClearAlerts
    \/ AdvanceClock

AlertReaderNext ==
    \/ AddRule
    \/ CheckAlerts
    \/ ClearAlerts
    \/ GetActiveAlerts
    \/ GetAllAlerts
    \/ AdvanceClock

(* the AlertManager with a reader of its alerts *)
AlertReaderSpec == AlertInit /\ [][AlertReaderNext]_vars

(* the AlertManager when data points may come without their disk list *)
AlertAnyPointSpec == AlertInit /\ [][AlertAnyPointNext]_vars

SysInfoNext ==
    \/ GetDynamicCpuUsageBegin
    \/ CpuTimesChange
    \/ GetDynamicCpuUsageEnd
    \/ GetCpuInfo
    \/ GetMemInfo

(* what the operating system reports: any counters within the bounds, the *)
(* free memory never above the total                                      *)
SysInfoInit ==
    /\ MonitorIdle
    /\ AlertManagerIdle
    /\ pushed = <<>>
    /\ ExtIdle
    /\ NoQuery
    /\ cpuStart = [user |-> 0, sys |-> 0, idle |-> 0]
    /\ cpuEnd \in CpuTimes
    /\ sampling = FALSE
    /\ collecting = <<>>
    /\ mem \in {m \in [total : 0..MaxBytes, free : 0..MaxBytes] : m.free <= m.total}
    /\ reported = [call |-> "none"]

(* the system-info functions on every reading within the bounds: a call of
   getDynamicCpuUsage, the counters changing while it waits, and a call of
   another function before it or between its two samples *)
SysInfoSpec == SysInfoInit /\ [][SysInfoNext]_vars

(* a monitor's tick beside a delta sampler: the counters stand anywhere
   within the bounds when the first call is made *)
TickInit ==
    /\ MonitorIdle
    /\ AlertManagerIdle
    /\ pushed = <<>>
    /\ ExtIdle
    /\ NoQuery
    /\ cpuStart = [user |-> 0, sys |-> 0, idle |-> 0]
    /\ cpuEnd \in CpuTimes
    /\ sampling = FALSE
    /\ collecting = <<>>
    /\ mem = [total |-> 0, free |-> 0]
    /\ reported = [call |-> "none"]

TickNext ==
    \/ GetDynamicCpuUsageBegin
    \/ CpuTimesChange
    \/ GetDynamicCpuUsageEnd
    \/ CollectCpuUsageBegin
    \/ CollectCpuUsageEnd

(* a tick's collectData, which reads the counters before its await and
   publishes its data point after it, while a call of getDynamicCpuUsage
   takes its two samples and the counters change *)
TickSpec == TickInit /\ [][TickNext]_vars

----------------------------------------------------------------------------
(* The history alone: data points added one after the other to an         *)
(* initially empty history under a historySize that never changes        *)

MaxCapacity == 3   \* historySize ranges over 0..MaxCapacity
MaxExtra    == 2   \* up to historySize + MaxExtra data points are added

HistoryInit ==
    /\ \E c \in 0..MaxCapacity :
          config = newDynamicMonitor([historySize |-> c]).config
    /\ history = <<>>
    /\ pushed = <<>>
    /\ ExtIdle
    /\ intervalId = NoTimer
    /\ isRunning = FALSE
    /\ timers = {}
    /\ inflight = [t \in Times |-> 0]
    /\ now = 0
    /\ out = <<>>
    /\ changedAt = Unset
    /\ AlertManagerIdle
    /\ SysInfoIdle
    /\ NoQuery

(* addDataPoint(dataPoint); the data points are numbered in the order added *)
AddDataPoint ==
    \E u \in CpuUsages :
        LET p == [timestamp |-> Len(pushed), cpu |-> u]
        IN  /\ Len(pushed) < config.historySize + MaxExtra
            /\ history' = addDataPoint(history, p, config.historySize)
            /\ pushed' = Append(pushed, p)
            /\ UNCHANGED <<config, intervalId, isRunning, timers, inflight, now, out,
                           changedAt, amVars, extVars, siVars, queryVars>>

MaxCount == 4      \* getHistory is called with count in 0..MaxCount, or without

(* a call of getHistory(count) or getHistory() *)
GetHistory ==
    \E count \in {Unset} \cup (0..MaxCount) :
        /\ returned' = [call |-> "getHistory", count |-> count,
                        result |-> getHistory(history, count)]
        /\ UNCHANGED <<monVars, changedAt, amVars, extVars, pushed, siVars, values, periods>>

HistoryNext == AddDataPoint \/ GetHistory

HistorySpec == HistoryInit /\ [][HistoryNext]_vars

(* the reference a newly created array gets: one that no array has which
   is still referred to once the call has let go of what it replaces *)
NewRef(live) == CHOOSE r \in Refs \ live : \A q \in Refs \ live : r <= q

(* arrays nothing refers to any more are gone *)
Collected(heap, live) == [r \in Refs |-> IF r \in live THEN heap[r] ELSE <<>>]

(* addDataPoint(dataPoint): push and shift change the array this.history
   points to, in place *)
AddDataPointInPlace ==
    \E u \in CpuUsages :
        LET p == [timestamp |-> Len(pushed), cpu |-> u]
        IN  /\ Len(pushed) < config.historySize + MaxExtra
            /\ arrays' = [arrays EXCEPT
                             ![historyArr] = addDataPoint(@, p, config.historySize)]
            /\ history' = arrays'[historyArr]
            /\ pushed' = Append(pushed, p)
            /\ UNCHANGED <<config, intervalId, isRunning, timers, inflight, now, out,
                           changedAt, amVars, emitted, mmVars, sessVars, ohmVars,
                           historyArr, siVars, queryVars>>

(* a call of getHistory(count) or getHistory() whose caller keeps the array
   it returns (and lets go of the one it kept before) *)
GetHistoryArray ==
    \E count \in {Unset} \cup (0..MaxCount) :
        LET got == getHistoryArray(arrays, historyArr, count, NewRef({historyArr}))
        IN  /\ returned' = [call |-> "getHistory", count |-> count, ref |-> got.ref]
            /\ arrays' = Collected(got.arrays, {historyArr, got.ref})
            /\ UNCHANGED <<monVars, changedAt, amVars, emitted, mmVars, sessVars,
                           ohmVars, historyArr, pushed, siVars, values, periods>>

(* a call of clearHistory(): `this.history = []` points this.history to a
   new, empty array and leaves the old one as it is *)
ClearHistoryRebinds ==
    LET kept == IF returned.call = "getHistory" THEN {returned.ref} ELSE {}
        r == NewRef(kept)
    IN  /\ Becomes(clearHistory(Monitor))
        /\ historyArr' = r
        /\ arrays' = Collected([arrays EXCEPT ![r] = <<>>], kept \cup {r})
        /\ UNCHANGED <<now, changedAt, amVars, emitted, mmVars, sessVars, ohmVars,
                       pushed, siVars, queryVars>>

(* the caller of getHistory changes the array it was given, in place: push
   of a data point of its own, or pop *)
ChangeReturned ==
    /\ returned.call = "getHistory"
    /\ \E q \in {Append(arrays[returned.ref], [timestamp |-> -1, cpu |-> 0]),
                  SubSeq(arrays[returned.ref], 1, Len(arrays[returned.ref]) - 1)} :
          /\ Len(q) <= MaxCapacity
          /\ q # arrays[returned.ref]
          /\ arrays' = [arrays EXCEPT ![returned.ref] = q]
          /\ history' = arrays'[historyArr]
    /\ UNCHANGED <<config, intervalId, isRunning, timers, inflight, now, out,
                   changedAt, amVars, emitted, mmVars, sessVars, ohmVars, historyArr,
                   pushed, siVars, queryVars>>

SnapshotNext ==
    \/ AddDataPointInPlace
    \/ GetHistoryArray
    \/ ClearHistoryRebinds
    \/ ChangeReturned

(* readers of the history among additions and clearHistory *)
SnapshotSpec == HistoryInit /\ [][SnapshotNext]_vars

----------------------------------------------------------------------------
(* partial updates of the configuration of a monitor that starts, ticks and
   stops *)

PartialConfigNext ==
    \/ Start
    \/ Stop
    \/ TimerFire
    \/ CollectOk
    \/ CollectOkListenerThrows
    \/ UpdateConfigPartial

PartialConfigSpec == Init /\ [][PartialConfigNext]_vars

----------------------------------------------------------------------------
(* updateConfig among the ticks of a monitor, the time of the last change of
   the configuration being recorded *)

UpdateConfigAt ==
    \E nc \in NewConfigs :
        /\ isRunning => InFlightCount < MaxInFlight
        /\ Becomes(updateConfig(Monitor, nc, now))
        /\ changedAt' = (IF Spread(config, nc) # config THEN now ELSE changedAt)
        /\ UNCHANGED <<now, amVars, extVars, pushed, siVars, queryVars>>

ConfigNext ==
    \/ Start
    \/ Stop
    \/ TimerFire
    \/ CollectOk
    \/ CollectOkListenerThrows
    \/ UpdateConfigAt
    \/ AdvanceClock

ConfigSpec == Init /\ [][ConfigNext]_vars

----------------------------------------------------------------------------
(* TrendAnalyzer on its own: one call on a window of values *)

TrendInit ==
    /\ MonitorIdle
    /\ AlertManagerIdle
    /\ SysInfoIdle
    /\ pushed = <<>>
    /\ ExtIdle
    /\ values \in UNION {[1..n -> TrendValues] : n \in 0..MaxWindow}
    /\ periods \in {Unset} \cup (0..MaxPeriods)
    /\ returned = [call |-> "none"]

TrendNext == CalculateTrend \/ PredictTrend

TrendSpec == TrendInit /\ [][TrendNext]_vars

----------------------------------------------------------------------------
(* Properties of the DynamicMonitor (Spec) and of its history (HistorySpec) *)

objectState == <<config, history, intervalId, isRunning, timers, inflight>>

LastN(q, n) == SubSeq(q, Len(q) - n + 1, Len(q))

(* C11: getHistory(n) returns, for every n >= 0, exactly the last
   min(n, length) data points of the history, oldest first *)
GetHistoryReturnsLastN ==
    [][(returned' # returned /\ returned'.call = "getHistory"
            /\ returned'.count # Unset)
        => returned'.result = LastN(history, Min(returned'.count, Len(history)))]_vars

(* C23: getHistory returns a snapshot: no data point added, evicted or
   cleared after the call changes the elements of an array returned before,
   and adding or removing elements of the returned array does not change
   the monitor's history; so no step changes both the history and the
   array the caller holds *)
GetHistoryReturnsSnapshot ==
    [][ (returned.call = "getHistory" /\ returned' = returned)
          => \/ history' = history
             \/ arrays'[returned.ref] = arrays[returned.ref] ]_vars

(* C23: after a plain getHistory() of a history of one data point, the
   caller pushed a point of its own onto the returned array and the monitor
   added a data point: each array holds its own second element *)
SnapshotOutlivesPush ==
    /\ returned.call = "getHistory"
    /\ returned.count = Unset
    /\ Len(pushed) = 2
    /\ history = pushed
    /\ arrays[historyArr] = pushed
    /\ arrays[returned.ref] = <<pushed[1], [timestamp |-> -1, cpu |-> 0]>>

(* MonitoringConfig: interval > 0 and historySize > 0 *)
ValidConfig(c) == c.interval > 0 /\ c.historySize > 0

(* C2: in every reachable state the history holds at most config.historySize *)
(* data points, also after updateConfig has lowered historySize (stated for  *)
(* the states whose configuration is valid; an invalid one is C10's case)    *)
HistoryWithinHistorySize ==
    ValidConfig(config) => Len(history) <= config.historySize

(* C3: once historySize or more data points have been added to an empty     *)
(* history under a fixed historySize, the history is exactly the last       *)
(* historySize points added, oldest first                                   *)
HistoryKeepsMostRecent ==
    Len(pushed) >= config.historySize
        => /\ Len(history) = config.historySize
           /\ history = LastN(pushed, config.historySize)

(* C3: more points than historySize were added and the oldest were evicted *)
HistoryOverflowed ==
    /\ config.historySize >= 2
    /\ Len(pushed) >= config.historySize + 2
    /\ history # <<>>
    /\ history[1].timestamp = 2

(* C4: at most one collectData execution is in flight in every reachable state *)
AtMostOneCollectInFlight == InFlightCount <= 1

(* C5: start() on a running monitor changes nothing (it only warns), and    *)
(* after every call at most one interval timer is active, the one the       *)
(* monitor holds                                                            *)
StartWhileRunningIsNoOp ==
    [][ /\ (isRunning /\ Start) => (UNCHANGED objectState /\ out' = <<"warn">>)
        /\ Cardinality(timers') <= 1
        /\ timers' = (IF intervalId' = NoTimer THEN {} ELSE {intervalId'}) ]_vars

(* C5: start() has just been called on a running monitor *)
StartedTwice ==
    /\ isRunning
    /\ out = <<"warn">>
    /\ Cardinality(timers) = 1

(* C6: stop() on a stopped monitor changes nothing (it only warns); while   *)
(* the monitor is stopped no timer is active, so the timer starts no        *)
(* collectData between a stop() and the next start()                        *)
StopIsIdempotentAndFinal ==
    [][ /\ ((~isRunning) /\ Stop) => (UNCHANGED objectState /\ out' = <<"warn">>)
        /\ (~isRunning') => timers' = {}
        /\ TimerFire => (isRunning /\ isRunning') ]_vars

(* C6: stop() has just been called on a monitor that ran and was stopped *)
StoppedTwice ==
    /\ ~isRunning
    /\ out = <<"warn">>
    /\ history # <<>>

(* C14: getStatus().isRunning is true exactly from a start() until the next
   stop(), and in every reachable state isRunning is true iff a periodic
   timer is active (intervalId is set) *)
IsRunningIffTimerActive ==
    /\ [] /\ getStatus(Monitor, now).isRunning
               <=> (intervalId # NoTimer /\ intervalId \in timers)
          /\ getStatus(start(Monitor, now), now).isRunning
          /\ ~getStatus(stop(Monitor), now).isRunning
    /\ [][ (isRunning' # isRunning) => (Start \/ StartMonitoring \/ Stop) ]_vars

(* C14: the monitor ran, was stopped and has just been started again *)
RunningAgainAfterStop ==
    /\ getStatus(Monitor, now).isRunning
    /\ intervalId \in timers
    /\ out = <<"start">>
    /\ history # <<>>

(* the metrics of a data point that are above their configured threshold:
   cpu, memory, and every disk by its position in the disk list *)
AboveThreshold(p, cfg) ==
    {<<k, 0>> : k \in {k \in {"cpu", "memory"} : exceeds(p[k], cfg, k)}}
    \cup {<<"disk", i>> : i \in {i \in DOMAIN p.disk : exceeds(p.disk[i], cfg, "disk")}}

(* C15: the monitor's own threshold alerting is edge-triggered: a tick emits
   'alert' only when the metric first exceeds its threshold, so not when the
   data point of the tick before it was already above the same threshold *)
MonitorAlertsOnlyOnCrossing ==
    [][ ( /\ \E i \in DOMAIN out' : out'[i] = "alert"
          /\ InFlightCount = 1 /\ InFlightCount' = 0
          /\ history # <<>> /\ Len(history') = Len(history) + 1
          /\ history'[Len(history')].timestamp > history[Len(history)].timestamp )
        => AboveThreshold(history'[Len(history')], config)
               \ AboveThreshold(history[Len(history)], config) # {} ]_vars

(* C16: a configuration update is atomic with respect to ticks: a tick that
   began before updateConfig changed the configuration does not resume under
   the changed configuration (its historySize, enableAlerts and thresholds
   are read when the tick resumes with its samples) *)
TickUsesTheConfigItStartedWith ==
    [][ \A t \in Times :
          ( /\ inflight'[t] < inflight[t]
            /\ \E i \in DOMAIN out' : out'[i] = "data" )
          => changedAt <= t ]_vars

(* C17: the start request of the HTTP layer, startMonitoring with or without
   a config body, is a no-op on a running monitor: the timer is not stopped
   and restarted, no 'stop' or 'start' event is emitted and no extra
   immediate collection is begun *)
StartRequestWhileRunningIsNoOp ==
    [][ (isRunning /\ StartMonitoring) =>
          /\ UNCHANGED <<intervalId, timers, inflight>>
          /\ \A i \in DOMAIN out' : out'[i] \notin {"stop", "start"} ]_vars

(* C25: once stop() has returned, and until the next start(), the history is
   not modified and no 'data' or 'alert' event is emitted, also by a tick
   that was awaiting its samples when stop was called *)
StoppedMonitorIsQuiet ==
    [][ ((~isRunning) /\ InFlightCount' < InFlightCount) =>
          /\ history' = history
          /\ \A i \in DOMAIN out' : out'[i] \notin {"data", "alert"} ]_vars

(* the value of one threshold of a configuration, Unset for undefined *)
ThresholdOf(cfg, k) ==
    IF k \in DOMAIN cfg.thresholds THEN cfg.thresholds[k] ELSE Unset

(* C27: updateConfig with a partial configuration changes only the settings
   it names: every other setting, and every threshold that a partial
   thresholds object does not mention, keeps its previous value *)
PartialUpdateKeepsOtherSettings ==
    returned.call = "updateConfig" =>
        LET nc == returned.newConfig
        IN  /\ \A k \in {"interval", "historySize", "enableAlerts"} \ DOMAIN nc :
                  config[k] = returned.before[k]
            /\ \A k \in {"cpu", "memory", "disk"} :
                  ~("thresholds" \in DOMAIN nc /\ k \in DOMAIN nc.thresholds) =>
                      ThresholdOf(config, k) = ThresholdOf(returned.before, k)

(* C7: a tick that ends in collectData's catch block, its collection or one
   of its listeners having failed, reports 'error' as its last event and
   leaves the configuration, the running state and the timer as they were;
   when the collection itself failed, 'error' is its only event and the
   history is as it was; on a running monitor the timer stays active, so
   that it can fire the next collection *)
FailedTickKeepsMonitoring ==
    [][ ( /\ out' # <<>>
          /\ out'[Len(out')] = "error"
          /\ \E t \in Times : inflight'[t] < inflight[t] ) =>
          /\ UNCHANGED <<config, intervalId, isRunning, timers>>
          /\ InFlightCount' = InFlightCount - 1
          /\ isRunning => (timers' # {} /\ intervalId' \in timers')
          /\ out' = <<"error">> => history' = history ]_vars

(* C7: a collection has just failed on a running monitor whose history     *)
(* already holds data, and a later collection is already under way         *)
FailedTickWhileRunning ==
    /\ out = <<"error">>
    /\ isRunning
    /\ intervalId \in timers
    /\ history # <<>>
    /\ InFlightCount > 0

(* C10: no invalid configuration is ever stored: updateConfig leaves the    *)
(* stored configuration as it was when the new one is invalid               *)
InvalidConfigNeverStored == ValidConfig(config)

----------------------------------------------------------------------------
(* Properties of the AlertManager (AlertSpec) *)

Occurrences(q, e) == Cardinality({i \in DOMAIN q : q[i] = e})

(* C18: a condition that throws while checkAlerts evaluates a data point is
   caught and its rule treated as not alerting: checkAlerts itself does not
   throw (and goes on to evaluate every other registered rule) *)
CheckAlertsNeverThrows ==
    amOut.call = "checkAlerts" => ~amOut.thrown

(* C1: checkAlerts is edge-triggered. prevCond[r] is the value of r's       *)
(* condition on the previous data point since the last clearAlerts (FALSE   *)
(* when there is none). A call emits 'alert' for r exactly once when the    *)
(* condition is true and was not on the previous point, 'alertResolved'     *)
(* exactly once when it is false and was true on the previous point, and    *)
(* nothing for r otherwise                                                  *)
AlertsAreEdgeTriggered ==
    [][ \A p \in AlertPoints :
          CheckAlertsOn(p) =>
            \A r \in Registered(rules) :
              /\ Occurrences(amOut'.events, [type |-> "alert", id |-> r])
                   = (IF condition(r, p) /\ ~prevCond[r] THEN 1 ELSE 0)
              /\ Occurrences(amOut'.events, [type |-> "alertResolved", id |-> r])
                   = (IF (~condition(r, p)) /\ prevCond[r] THEN 1 ELSE 0) ]_vars

(* C1: a rule whose alert was raised on an earlier point has just been      *)
(* evaluated on a further point on which its condition is still true, and   *)
(* the call emitted nothing for it                                          *)
AlertStaysRaisedSilently ==
    /\ amOut.call = "checkAlerts"
    /\ \E r \in Registered(rules) :
          /\ prevCond[r]
          /\ r \in DOMAIN alerts
          /\ ~alerts[r].resolved
          /\ Occurrences(amOut.events, [type |-> "alert", id |-> r]) = 0

(* C24: getActiveAlerts and getAllAlerts return snapshots: an alert a reader
   obtained as active never becomes resolved in the reader's hands when a
   later checkAlerts resolves that rule's alert *)
ActiveAlertStaysActiveForReader ==
    held.call = "getActiveAlerts" =>
        \A r \in DOMAIN held.result : ~held.result[r].alert.resolved

(* C26: for every rule, the number of 'alert' events emitted so far minus the
   number of 'alertResolved' events is 0 or 1, and it is 1 exactly when an
   unresolved record of the rule exists *)
AlertEventsMatchRecords ==
    \A r \in RuleIds :
        LET open == emitted[r].alert - emitted[r].alertResolved
        IN  /\ open \in {0, 1}
            /\ (open = 1) <=> (r \in DOMAIN alerts /\ ~alerts[r].resolved)

(* C19: the AlertManager keeps at most one record per rule id; a record is
   removed only by clearAlerts (resolution marks it resolved with resolvedAt
   set and keeps it); a firing after resolution leaves one record under the
   same id that is unresolved, has a fresh firing timestamp and no resolvedAt *)
OneAlertRecordPerRule ==
    [][ /\ \A r \in DOMAIN alerts' :
              /\ alerts'[r].id = r
              /\ alerts'[r].resolved <=> alerts'[r].resolvedAt # Unset
        /\ \A r \in DOMAIN alerts :
              /\ r \in DOMAIN alerts' \/ ClearAlerts
              /\ (r \in DOMAIN alerts' /\ ~alerts[r].resolved /\ alerts'[r].resolved)
                    => (alerts'[r] = [alerts[r] EXCEPT !.resolved = TRUE,
                                                       !.resolvedAt = now])
              /\ ( /\ alerts[r].resolved
                   /\ Occurrences(amOut'.events, [type |-> "alert", id |-> r]) > 0 )
                    => /\ r \in DOMAIN alerts'
                       /\ ~alerts'[r].resolved
                       /\ alerts'[r].timestamp = now
                       /\ alerts'[r].resolvedAt = Unset ]_vars

(* C19: a rule whose alert was resolved has just fired again, at a later time
   than its resolution *)
AlertFiredAgainAfterResolution ==
    /\ amOut.call = "checkAlerts"
    /\ \E r \in resolvedOnce :
          /\ r \in DOMAIN alerts
          /\ ~alerts[r].resolved
          /\ alerts[r].timestamp = now
          /\ now > 0
          /\ Occurrences(amOut.events, [type |-> "alert", id |-> r]) = 1

----------------------------------------------------------------------------
(* Properties of the system-info functions (SysInfoSpec) *)

InPercentRange(v) == v.kind = "number" /\ 0 <= v.h /\ v.h <= 10000

DeltaTotal ==
    (cpuEnd.user - cpuStart.user) + (cpuEnd.sys - cpuStart.sys)
        + (cpuEnd.idle - cpuStart.idle)

(* C28: after stopMonitoring() has returned, and until the next
   startMonitoring(), no recording tick occurs, also when startMonitoring
   was called twice without a stop in between *)
NoRecordingAfterStopMonitoring ==
    [][ monitorInterval = NoTimer => memHistory' = memHistory ]_vars

(* C29: the session counter loses no update: once n requests have completed,
   and none is in progress, the stored count is n and the n responses are
   exactly the values 1..n *)
SessionCounterLosesNoUpdate ==
    LET completed == {r \in Requests : requests[r].pc = "done"}
        n == Cardinality(completed)
    IN  (n > 0 /\ \A r \in Requests : requests[r].pc \in {"new", "done"}) =>
            /\ session.count = toDigits(n)
            /\ {requests[r].response : r \in completed} = 1..n

(* C30: the short-term history never exceeds 100 entries, the long-term
   history never exceeds 1000, and one in every compressionRatio evicted
   points is kept: after 100 + 10*m points the long-term history holds at
   least min(m, 1000) entries *)
LongTermHistoryIsDownSampled ==
    /\ Len(shortTermHistory) <= shortTermSize
    /\ Len(longTermHistory) <= longTermSize
    /\ added >= shortTermSize =>
           Len(longTermHistory) >=
               Min((added - shortTermSize) \div compressionRatio, longTermSize)

(* C8: every percentage getDynamicCpuUsage reports lies in [0,100], also    *)
(* when a counter decreased between the two samples (stated for the         *)
(* windows whose total is not zero; the zero total is C9's case); once the  *)
(* call has returned, cpuStart and cpuEnd stay its two samples              *)
DynamicCpuUsageWithinRange ==
    (reported.call = "getDynamicCpuUsage" /\ DeltaTotal # 0)
        => /\ InPercentRange(reported.used)
           /\ InPercentRange(reported.sys)
           /\ InPercentRange(reported.free)

(* C9: with a zero denominator (delta window total 0, cumulative counters   *)
(* all 0, total memory 0) the usage reported is the number 0                *)
ZeroDenominatorReportsZero ==
    [][ reported' # reported =>
          /\ (reported'.call = "getDynamicCpuUsage" /\ DeltaTotal = 0)
                => (reported'.used = Num(0) /\ reported'.sys = Num(0))
          /\ (reported'.call = "getCpuInfo"
                /\ cpuEnd.user + cpuEnd.sys + cpuEnd.idle = 0)
                => (reported'.used = Num(0) /\ reported'.sys = Num(0))
          /\ (reported'.call = "getMemInfo" /\ mem.total = 0)
                => reported'.usage = Num(0) ]_vars

(* C22: the CPU usage a tick stores in its data point is the delta-sampled
   utilisation (delta-user + delta-sys) / (delta-user + delta-sys +
   delta-idle) x 100 of two counter snapshots one sampling interval apart:
   of the counters the tick reads before its await and the snapshot that a
   delta sampler took before that (stated for counters that did not decrease
   and a window in which time passed, to two decimals); and the data point
   published after the await holds the usage of that reading *)
TickStoresDeltaSampledUsage ==
    [][ /\ ( /\ collecting = <<>>
              /\ collecting' # <<>>
              /\ sampling
              /\ cpuEnd.user >= cpuStart.user
              /\ cpuEnd.sys >= cpuStart.sys
              /\ cpuEnd.idle >= cpuStart.idle
              /\ DeltaTotal > 0 )
            => parseFloat(collecting'[1].used) =
                  percent((cpuEnd.user - cpuStart.user) + (cpuEnd.sys - cpuStart.sys),
                          DeltaTotal)
        /\ ( /\ collecting # <<>>
              /\ reported' # reported
              /\ reported'.call = "collectData" )
            => reported'.usage = parseFloat(collecting[1].used) ]_vars

----------------------------------------------------------------------------
(* Properties of the TrendAnalyzer (TrendSpec) *)

(* the two means calculateTrend compares: of the first floor(n/2) values and
   of the values after them, as sum/count pairs *)
FirstCount == Len(values) \div 2
FirstSum == Sum(SubSeq(values, 1, FirstCount))
RestCount == Len(values) - FirstCount
RestSum == Sum(SubSeq(values, FirstCount + 1, Len(values)))

(* |secondMean - firstMean| < 5% of firstMean, multiplied out *)
WithinFivePercent ==
    20 * Abs(RestSum * FirstCount - FirstSum * RestCount) < FirstSum * RestCount

(* C12: for a window whose first-half mean is positive, calculateTrend is
   'stable' iff |secondMean - firstMean| < 5% of firstMean, otherwise 'up'
   when secondMean > firstMean and 'down' when secondMean < firstMean;
   [50,50,50,50] is stable, [10,10,90,90] is up, [90,90,10,10] is down *)
TrendFollowsFivePercentRule ==
    (returned.call = "calculateTrend" /\ Len(values) >= 2 /\ FirstSum > 0) =>
        /\ returned.result = "stable" <=> WithinFivePercent
        /\ returned.result = "up" <=>
               (~WithinFivePercent /\ RestSum * FirstCount > FirstSum * RestCount)
        /\ returned.result = "down" <=>
               (~WithinFivePercent /\ RestSum * FirstCount < FirstSum * RestCount)
        /\ values = <<50, 50, 50, 50>> => returned.result = "stable"
        /\ values = <<10, 10, 90, 90>> => returned.result = "up"
        /\ values = <<90, 90, 10, 10>> => returned.result = "down"

(* a change of exactly 5% of the first mean is not stable *)
TrendAtExactlyFivePercent ==
    /\ returned.call = "calculateTrend"
    /\ values = <<20, 20, 21, 21>>
    /\ returned.result = "up"

(* the least-squares line through (i, values[i+1]), i = 0..n-1, in its centred
   form  mean(y) + (Sxy / Sxx) * (x - mean(x)),  as the fraction
   LineNum(x) / LineDen with every term multiplied by n *)
CentredX(i) == Len(values) * (i - 1) - sumX(values)
CentredY(i) == Len(values) * values[i] - sumY(values)
Sxx == Sum([i \in 1..Len(values) |-> CentredX(i) * CentredX(i)])
Sxy == Sum([i \in 1..Len(values) |-> CentredX(i) * CentredY(i)])
LineDen == Len(values) * Sxx
LineNum(x) == sumY(values) * Sxx + Sxy * (Len(values) * x - sumX(values))

(* r is the value of the line at x, clamped to [0, 100] *)
IsClampedLineValue(r, x) ==
    IF LineNum(x) < 0 THEN r = Whole(0)
    ELSE IF LineNum(x) > 100 * LineDen THEN r = Whole(100)
    ELSE r.num * LineDen = LineNum(x) * r.den

(* C13: predictTrend returns an empty sequence for fewer than 3 values, and
   otherwise exactly `periods` values, the i-th being the least-squares line
   through (index, value) evaluated at index n-1+i and clamped to [0,100] *)
PredictionsFollowLeastSquaresLine ==
    returned.call = "predictTrend" =>
        /\ Len(values) < 3 => returned.result = <<>>
        /\ (Len(values) >= 3 /\ periods # Unset) =>
               /\ Len(returned.result) = periods
               /\ \A i \in 1..periods :
                      IsClampedLineValue(returned.result[i], Len(values) - 1 + i)

(* a forecast with one value on the line inside (0, 100) and a later one
   clamped to 100 *)
ForecastReachesTheClamp ==
    /\ returned.call = "predictTrend"
    /\ Len(values) >= 3
    /\ periods = 2
    /\ 0 < returned.result[1].num
    /\ returned.result[1].num < 100 * returned.result[1].den
    /\ returned.result[2] = Whole(100)
    /\ LineNum(Len(values) + 1) > 100 * LineDen

(* the sum of the last floor(n/2) values *)
LastSum == Sum(SubSeq(values, Len(values) - FirstCount + 1, Len(values)))

(* C20: for a window of odd length n the middle element is in neither half:
   the direction is that of the first floor(n/2) values against the last
   floor(n/2) values, whatever the middle value is *)
MiddleValueDoesNotCount ==
    ( /\ returned.call = "calculateTrend"
      /\ Len(values) >= 3 /\ Len(values) % 2 = 1
      /\ FirstSum > 0 )
    => returned.result =
          (IF 20 * Abs(LastSum - FirstSum) < FirstSum THEN "stable"
           ELSE IF LastSum > FirstSum THEN "up" ELSE "down")

(* C21: when the first-half mean is 0, calculateTrend uses an absolute
   threshold of 1.0: 'stable' when |secondMean - firstMean| < 1.0 (so an
   all-zero window is 'stable'), otherwise 'up' or 'down' by the sign of the
   difference.  Stated for windows of even length, whose halves are the same
   under every reading *)
ZeroMeanUsesAbsoluteThreshold ==
    ( /\ returned.call = "calculateTrend"
      /\ Len(values) >= 2 /\ Len(values) % 2 = 0
      /\ FirstSum = 0 )
    => returned.result =
          (IF Abs(RestSum) < RestCount THEN "stable"
           ELSE IF RestSum > 0 THEN "up" ELSE "down")

=============================================================================
